---- MODULE Spec2Model ----
(***************************************************************************)
(* Model of the metronome: the beat scheduler (run_progressive followed by *)
(* run_constant, src/src/metronome/mod.rs), the interactive loop and its   *)
(* key handlers (src/src/ui.rs), the shared run state (src/src/state.rs)   *)
(* and the tap-tempo estimator (src/src/tap_tempo.rs).                     *)
(*                                                                         *)
(* Time is a monotonic clock in whole milliseconds (Instant::now()).       *)
(* Tempi (f64 in the source) are exact rationals <<n, d>> in lowest terms  *)
(* with d > 0, so that equality of tempi is equality of values; the one    *)
(* f64 computation whose rounding error reaches a discrete result, the     *)
(* beat count of the ramp, is computed bit for bit as IEEE 754 does.       *)
(***************************************************************************)
EXTENDS Integers, Sequences, FiniteSets, TLC

VARIABLES
    clock,                \* Instant::now(), in ms
    state,                \* AtomicMetronomeState shared by both threads
    bpm_shared,           \* Arc<Mutex<f64>>: the tempo store
    args,                 \* the command line: start/end bpm, duration, measures
    sched_pc,             \* position of the scheduler thread
    beat,                 \* run_progressive: loop index
    total_beats,          \* run_progressive: derived beat count
    num_increments,       \* run_progressive: derived number of increments
    bpm_increment,        \* run_progressive: derived increment (rational)
    current_bpm,          \* scheduler local current_bpm (ramp and steady)
    current_state,        \* scheduler local current_state
    next_beat,            \* scheduler local anchor (ms)
    sleep_until,          \* end of the pause slice being slept (ms)
    ui_pc,                \* position of the interactive loop
    app_state,            \* AppState.current_bpm and AppState.state
    input_mode,           \* AppState.input_mode
    input_buffer,         \* AppState.input_buffer, a sequence of characters
    tap_times,            \* TapTempo.tap_times (ms)
    is_tapping,           \* TapTempo.is_tapping (the field)
    last_calculated_bpm,  \* TapTempo.last_calculated_bpm (None or rational)
    key,                  \* the key event handled last by handle_key_event
    tap_result,           \* the value returned by the last tap()
    keys_read,            \* number of key events read so far
    ramp_ticks,           \* play_tick calls made by run_progressive
    const_ticks,          \* play_tick calls made by run_constant
    seen_stop,            \* the scheduler has loaded Stopped from the run state
    ticks_at_stop,        \* play_tick calls made before Stopped was stored
    fired,                \* 1-based beat numbers after which an increment fired
    typed,                \* keys pressed in the latest stay in input mode
    toggled_from,         \* states the toggles since the last stop started from
    taps,                 \* times of all calls of TapTempo::tap so far
    bpm_lock,             \* the thread holding the Mutex of bpm_shared
    bpm_read,             \* the value += or -= has read through the guard
    bpm_committed,        \* the store when the lock was last released
    current_bpm_f64       \* the ramp's current_bpm as the f64 it is held in

vars == <<clock, state, bpm_shared, args, sched_pc, beat, total_beats,
          num_increments, bpm_increment, current_bpm, current_state, next_beat,
          sleep_until, ui_pc, app_state, input_mode, input_buffer, tap_times,
          is_tapping, last_calculated_bpm, key, tap_result, keys_read,
          ramp_ticks, const_ticks, seen_stop, ticks_at_stop, fired, typed,
          toggled_from, taps, bpm_lock, bpm_read, bpm_committed,
          current_bpm_f64>>

sched_vars == <<sched_pc, beat, total_beats, num_increments, bpm_increment,
                current_bpm, current_state, next_beat, sleep_until,
                ramp_ticks, const_ticks, seen_stop, fired>>

tap_vars == <<tap_times, is_tapping, last_calculated_bpm, tap_result>>

hist_vars == <<typed, toggled_from, taps, ticks_at_stop>>

lock_vars == <<bpm_lock, bpm_read, bpm_committed>>

ui_vars == <<ui_pc, app_state, input_mode, input_buffer, key, keys_read,
             hist_vars, current_bpm_f64, lock_vars>>

-----------------------------------------------------------------------------
(* Bounds of the model *)

MaxClockSteps == 3      \* Spec, SpecKeys: clock advances of 500 ms in one run
MaxKeys == 3            \* Spec: key events read in one run
MaxBuf == 2             \* characters the input buffer may hold
MaxKeyEvents == 4       \* SpecKeys: key events handled in one run
MaxTaps == 7            \* SpecTap: taps in one run
MaxTapClockSteps == 12  \* SpecTap: the clock stops after this many 500 ms
MaxFairKeys == 2        \* SpecPlayFair: key events read in one run
MaxFairClockSteps == 2  \* SpecPlayFair: clock advances of 500 ms before a stop
MaxFineTaps == 4        \* SpecTapFine: taps in one run
MaxFineClockSteps == 30 \* SpecTapFine: the clock stops after this many 50 ms

Horizon == MaxClockSteps * 500
TapHorizon == MaxTapClockSteps * 500
FineHorizon == MaxFineClockSteps * 50
FairHorizon == MaxFairClockSteps * 500

-----------------------------------------------------------------------------
(* Program constants *)

MAX_TAP_HISTORY == 5
TAP_TIMEOUT_MS == 5000
MIN_BPM == 5
MAX_BPM == 300
PAUSE_POLL_MS == 100

None == "None"

-----------------------------------------------------------------------------
(* Exact rational arithmetic standing for f64 *)

Abs(x) == IF x < 0 THEN -x ELSE x

RECURSIVE GCD(_, _)
GCD(a, b) == IF b = 0 THEN a ELSE GCD(b, a % b)

Rat(n, d) ==
    LET s == IF d < 0 THEN -1 ELSE 1
        g == GCD(Abs(n), Abs(d))
    IN  <<(s * n) \div g, (s * d) \div g>>

RInt(i) == <<i, 1>>
RAdd(a, b) == Rat(a[1] * b[2] + b[1] * a[2], a[2] * b[2])
RSub(a, b) == Rat(a[1] * b[2] - b[1] * a[2], a[2] * b[2])
RGt(a, b) == a[1] * b[2] > b[1] * a[2]
RGe(a, b) == a[1] * b[2] >= b[1] * a[2]

-----------------------------------------------------------------------------
(* IEEE 754 binary64 products and quotients of small integers.  Naturals   *)
(* beyond 31 bits are little-endian sequences of 15-bit limbs; an f64 is a *)
(* record [m, e] of value m / 2^e with m of at most 53 bits.               *)

RECURSIVE Pow2(_)
Pow2(k) == IF k = 0 THEN 1 ELSE 2 * Pow2(k - 1)

Limb == Pow2(15)

RECURSIVE Limbs(_)
Limbs(x) == IF x = 0 THEN <<>> ELSE <<x % Limb>> \o Limbs(x \div Limb)

LimbAt(L, i) == IF i <= Len(L) THEN L[i] ELSE 0

RECURSIVE BigTrim(_)
BigTrim(L) ==
    IF L # <<>> /\ L[Len(L)] = 0 THEN BigTrim(SubSeq(L, 1, Len(L) - 1)) ELSE L

RECURSIVE BigMulFrom(_, _, _, _)
BigMulFrom(L, a, i, carry) ==
    IF i > Len(L) THEN Limbs(carry)
    ELSE LET cur == L[i] * a + carry
         IN  <<cur % Limb>> \o BigMulFrom(L, a, i + 1, cur \div Limb)

\* L * a for a < 2^15
BigMul(L, a) == BigTrim(BigMulFrom(L, a, 1, 0))

RECURSIVE BigAddFrom(_, _, _, _)
BigAddFrom(L, M, i, carry) ==
    IF i > Len(L) /\ i > Len(M) THEN Limbs(carry)
    ELSE LET cur == LimbAt(L, i) + LimbAt(M, i) + carry
         IN  <<cur % Limb>> \o BigAddFrom(L, M, i + 1, cur \div Limb)

BigAdd(L, M) == BigTrim(BigAddFrom(L, M, 1, 0))

\* 2^n
BigPow2(n) == [i \in 1..(n \div 15) |-> 0] \o <<Pow2(n % 15)>>

\* floor(L / 2^n)
BigShiftRight(L, n) ==
    LET a == n \div 15
        b == n % 15
    IN  BigTrim([j \in 1..(IF Len(L) > a THEN Len(L) - a ELSE 0) |->
                   (L[j + a] \div Pow2(b))
                   + (LimbAt(L, j + a + 1) % Pow2(b)) * Pow2(15 - b)])

\* L mod 2^n for n < 15
BigLowBits(L, n) == LimbAt(L, 1) % Pow2(n)

RECURSIVE BitLenSmall(_)
BitLenSmall(x) == IF x = 0 THEN 0 ELSE 1 + BitLenSmall(x \div 2)

BigBitLen(L) ==
    LET T == BigTrim(L)
    IN  IF T = <<>> THEN 0 ELSE 15 * (Len(T) - 1) + BitLenSmall(T[Len(T)])

RECURSIVE BigDivFrom(_, _, _, _)
BigDivFrom(L, v, i, rem) ==
    IF i = 0 THEN [q |-> <<>>, r |-> rem]
    ELSE LET cur == rem * Limb + L[i]
             rest == BigDivFrom(L, v, i - 1, cur % v)
         IN  [q |-> Append(rest.q, cur \div v), r |-> rest.r]

\* quotient and remainder of L by v < 2^11
BigDiv(L, v) ==
    LET res == BigDivFrom(L, v, Len(L), 0)
    IN  [q |-> BigTrim(res.q), r |-> res.r]

BigOdd(L) == LimbAt(L, 1) % 2 = 1

RECURSIVE BigValue(_)
BigValue(L) == IF L = <<>> THEN 0 ELSE L[1] + Limb * BigValue(Tail(L))

\* the f64 nearest to d / v, ties to even, for integers 0 < d, v < 2^11
F64Quotient(d, v) ==
    LET AtLeastOne(j) == IF j >= 0 THEN d * Pow2(j) >= v ELSE d >= v * Pow2(-j)
        j == CHOOSE k \in -11..11 : AtLeastOne(k) /\ ~AtLeastOne(k - 1)
        e == 52 + j
        dv == BigDiv(BigMul(BigPow2(e), d), v)
        up == 2 * dv.r > v \/ (2 * dv.r = v /\ BigOdd(dv.q))
    IN  [m |-> IF up THEN BigAdd(dv.q, <<1>>) ELSE dv.q, e |-> e]

\* the f64 nearest to (a / 2) * x, ties to even, for an integer 0 < a < 2^11
F64HalfProduct(a, x) ==
    LET p == BigMul(x.m, a)
        cut == BigBitLen(p) - 53
    IN  IF cut <= 0 THEN [m |-> p, e |-> x.e + 1]
        ELSE LET low == BigLowBits(p, cut)
                 kept == BigShiftRight(p, cut)
                 up == low > Pow2(cut - 1)
                       \/ (low = Pow2(cut - 1) /\ BigOdd(kept))
             IN  [m |-> IF up THEN BigAdd(kept, <<1>>) ELSE kept,
                  e |-> x.e + 1 - cut]

\* f64::round (half away from zero) of a positive f64, as an integer
F64Round(x) ==
    BigValue(BigShiftRight(BigAdd(BigMul(x.m, 2), BigPow2(x.e)), x.e + 1))

\* an integer 0 <= i < 2^31 as an f64
F64OfInt(i) == [m |-> Limbs(i), e |-> 0]

\* L * 2^n
BigShiftLeft(L, n) ==
    BigTrim([i \in 1..(n \div 15) |-> 0] \o BigMul(L, Pow2(n % 15)))

RECURSIVE BigSubFrom(_, _, _, _)
BigSubFrom(L, M, i, borrow) ==
    IF i > Len(L) THEN <<>>
    ELSE LET cur == L[i] - LimbAt(M, i) - borrow
         IN  <<cur % Limb>> \o BigSubFrom(L, M, i + 1, IF cur < 0 THEN 1 ELSE 0)

\* L - M for L >= M
BigSub(L, M) == BigTrim(BigSubFrom(L, M, 1, 0))

\* bit i of L, the lowest being bit 0
BigBit(L, i) == (LimbAt(L, i \div 15 + 1) \div Pow2(i % 15)) % 2

\* L mod 2^n is not 0
BigLowNonZero(L, n) ==
    \/ \E j \in 1..(n \div 15) : LimbAt(L, j) # 0
    \/ LimbAt(L, n \div 15 + 1) % Pow2(n % 15) # 0

\* the f64 nearest to s / 2^e, ties to even
F64Nearest(s, e) ==
    LET cut == BigBitLen(s) - 53
    IN  IF cut <= 0 THEN [m |-> s, e |-> e]
        ELSE LET kept == BigShiftRight(s, cut)
                 up == BigBit(s, cut - 1) = 1
                       /\ (BigLowNonZero(s, cut - 1) \/ BigOdd(kept))
             IN  [m |-> IF up THEN BigAdd(kept, <<1>>) ELSE kept,
                  e |-> e - cut]

\* x + y and x - y (for x >= y) in f64
F64Add(x, y) ==
    LET e == IF x.e > y.e THEN x.e ELSE y.e
    IN  F64Nearest(BigAdd(BigShiftLeft(x.m, e - x.e),
                          BigShiftLeft(y.m, e - y.e)), e)

F64Sub(x, y) ==
    LET e == IF x.e > y.e THEN x.e ELSE y.e
    IN  F64Nearest(BigSub(BigShiftLeft(x.m, e - x.e),
                          BigShiftLeft(y.m, e - y.e)), e)

\* floor(x * 2^j) for an f64 x < 2^(31 - j)
F64ScaledFloor(x, j) ==
    IF x.e >= j THEN BigValue(BigShiftRight(x.m, x.e - j))
    ELSE BigValue(BigShiftLeft(x.m, j - x.e))

\* x is a whole number
F64Whole(x) == ~BigLowNonZero(x.m, x.e)

-----------------------------------------------------------------------------
(* src/src/state.rs *)

Running == "Running"
Paused == "Paused"
Stopped == "Stopped"
MetronomeState == {Running, Paused, Stopped}

-----------------------------------------------------------------------------
(* src/src/tap_tempo.rs *)

Last(s) == s[Len(s)]

ClearIfTimedOutAtLimit(times, now) ==
    IF times # <<>> /\ now - Last(times) >= TAP_TIMEOUT_MS THEN <<>> ELSE times

ClearIfTimedOutNever(times, now) == times

\* tap(): "Clear old taps if timeout exceeded"
ClearIfTimedOut(times, now) ==
    IF times # <<>> /\ now - Last(times) > TAP_TIMEOUT_MS THEN <<>> ELSE times

KeepRecentDropNewest(times) ==
    IF Len(times) > MAX_TAP_HISTORY
    THEN SubSeq(times, 1, MAX_TAP_HISTORY) ELSE times

\* tap(): "Keep only the most recent taps"
KeepRecent(times) ==
    IF Len(times) > MAX_TAP_HISTORY THEN Tail(times) ELSE times

\* the window tap() leaves behind when called at time now
TapWindow(times, now) == KeepRecent(Append(ClearIfTimedOut(times, now), now))

RECURSIVE SumIntervals(_)
SumIntervals(times) ==
    IF Len(times) < 2 THEN 0
    ELSE (times[2] - times[1]) + SumIntervals(Tail(times))

InRangeExclusive(bpm) == RGt(bpm, RInt(MIN_BPM)) /\ RGt(RInt(MAX_BPM), bpm)

InRangeUnbounded(bpm) == RGe(bpm, RInt(MIN_BPM))

\* (MIN_BPM..=MAX_BPM).contains(&bpm)
InRange(bpm) == RGe(bpm, RInt(MIN_BPM)) /\ RGe(RInt(MAX_BPM), bpm)

\* calculate_bpm(): 60000 / (total_ms / n_intervals); a zero total gives
\* an infinite bpm, which is outside the accepted range
calculate_bpm(times) ==
    IF Len(times) < 2 THEN None
    ELSE LET total == SumIntervals(times)
             n == Len(times) - 1
         IN  IF total = 0 THEN None
             ELSE LET bpm == Rat(60000 * n, total)
                  IN  IF InRange(bpm) THEN bpm ELSE None

\* the value tap() returns for the window it leaves behind
TapReturn(window) == IF Len(window) < 2 THEN None ELSE calculate_bpm(window)

\* TapTempo::tap at time now
tap(now) ==
    LET window == TapWindow(tap_times, now)
    IN  /\ tap_times' = window
        /\ is_tapping' = TRUE
        /\ tap_result' = TapReturn(window)
        /\ last_calculated_bpm' =
              IF Len(window) < 2 THEN last_calculated_bpm ELSE TapReturn(window)

\* TapTempo::is_tapping and get_tap_count, read at time now
IsTappingAtLimit(now) ==
    /\ is_tapping
    /\ ~(tap_times # <<>> /\ now - Last(tap_times) >= TAP_TIMEOUT_MS)

IsTapping(now) ==
    /\ is_tapping
    /\ ~(tap_times # <<>> /\ now - Last(tap_times) > TAP_TIMEOUT_MS)

get_tap_count(now) == IF IsTapping(now) THEN Len(tap_times) ELSE 0

-----------------------------------------------------------------------------
(* src/src/ui.rs: the key handlers *)

DigitChars == {"0", "1", "2", "3", "4", "5", "6", "7", "8", "9"}

DigitVal(c) ==
    CASE c = "0" -> 0 [] c = "1" -> 1 [] c = "2" -> 2 [] c = "3" -> 3
      [] c = "4" -> 4 [] c = "5" -> 5 [] c = "6" -> 6 [] c = "7" -> 7
      [] c = "8" -> 8 [] c = "9" -> 9

\* c.is_ascii_digit() || c == '.'
AcceptedChar(c) == c \in DigitChars \/ c = "."

RECURSIVE Pow10(_)
Pow10(k) == IF k = 0 THEN 1 ELSE 10 * Pow10(k - 1)

RECURSIVE DigitsValue(_)
DigitsValue(ds) ==
    IF ds = <<>> THEN 0
    ELSE 10 * DigitsValue(SubSeq(ds, 1, Len(ds) - 1)) + DigitVal(Last(ds))

\* str::parse::<f64> on a buffer of digits and dots: Err (None) for the empty
\* string, a lone dot and more than one dot; "5." is 5 and ".5" is 0.5
ParseF64(buf) ==
    LET dots == {i \in 1..Len(buf) : buf[i] = "."}
        digits == SelectSeq(buf, LAMBDA c : c \in DigitChars)
    IN  IF Cardinality(dots) > 1 \/ digits = <<>>
           \/ \E i \in 1..Len(buf) : ~AcceptedChar(buf[i])
        THEN None
        ELSE LET frac == IF dots = {} THEN 0
                         ELSE Len(buf) - (CHOOSE i \in dots : TRUE)
             IN  Rat(DigitsValue(digits), Pow10(frac))

EnteredTempoUnchecked(buf) == ParseF64(buf)

\* handle_input_mode, Enter: the tempo the store is set to, or None
EnteredTempo(buf) ==
    LET bpm == ParseF64(buf)
    IN  IF bpm # None /\ RGt(bpm, RInt(0)) THEN bpm ELSE None

DecreaseUnguarded(bpm) == TRUE

DecreaseGuardPositive(bpm) == RGt(bpm, RInt(0))

\* handle_normal_mode, 'j': the guard of the decrement
DecreaseGuard(bpm) == RGt(bpm, RInt(1))

ToggledStateNoStopped(s) == IF s = Running THEN Paused ELSE Running

\* handle_normal_mode, ' ': the match on the loaded state
ToggledState(s) ==
    CASE s = Running -> Paused
      [] s = Paused -> Running
      [] s = Stopped -> Stopped

StopStatePaused == Paused

\* handle_normal_mode, 'q': the state stored
StopState == Stopped

SetTempo(bpm) ==
    /\ bpm_shared' = bpm
    /\ app_state' = [app_state EXCEPT !.current_bpm = bpm]

handle_normal_mode(k) ==
    CASE k = "k" ->
           /\ SetTempo(RAdd(bpm_shared, RInt(1)))
           /\ UNCHANGED <<state, input_mode, input_buffer, tap_vars>>
      [] k = "j" ->
           /\ IF DecreaseGuard(bpm_shared)
                 THEN SetTempo(RSub(bpm_shared, RInt(1)))
                 ELSE UNCHANGED <<bpm_shared, app_state>>
           /\ UNCHANGED <<state, input_mode, input_buffer, tap_vars>>
      [] k = "q" ->
           /\ app_state' = [app_state EXCEPT !.state = StopState]
           /\ state' = StopState
           /\ UNCHANGED <<bpm_shared, input_mode, input_buffer, tap_vars>>
      [] k = " " ->
           /\ state' = ToggledState(state)
           /\ app_state' = [app_state EXCEPT !.state = ToggledState(state)]
           /\ UNCHANGED <<bpm_shared, input_mode, input_buffer, tap_vars>>
      [] k = "g" ->
           /\ tap(clock)
           /\ IF tap_result' # None
                 THEN SetTempo(tap_result')
                 ELSE UNCHANGED <<bpm_shared, app_state>>
           /\ UNCHANGED <<state, input_mode, input_buffer>>
      [] k \in {"i", "Enter"} ->
           /\ input_mode' = TRUE
           /\ input_buffer' = <<>>
           /\ UNCHANGED <<state, bpm_shared, app_state, tap_vars>>
      [] OTHER ->
           UNCHANGED <<state, bpm_shared, app_state, input_mode, input_buffer,
                       tap_vars>>

handle_input_mode(k) ==
    CASE k = "Enter" ->
           /\ IF EnteredTempo(input_buffer) # None
                 THEN SetTempo(EnteredTempo(input_buffer))
                 ELSE UNCHANGED <<bpm_shared, app_state>>
           /\ input_mode' = FALSE
           /\ input_buffer' = <<>>
           /\ UNCHANGED <<state, tap_vars>>
      [] k = "Esc" ->
           /\ input_mode' = FALSE
           /\ input_buffer' = <<>>
           /\ UNCHANGED <<state, bpm_shared, app_state, tap_vars>>
      [] k = "Backspace" ->
           /\ input_buffer' = IF input_buffer = <<>> THEN <<>>
                               ELSE SubSeq(input_buffer, 1, Len(input_buffer) - 1)
           /\ UNCHANGED <<state, bpm_shared, app_state, input_mode, tap_vars>>
      [] AcceptedChar(k) ->
           /\ input_buffer' = Append(input_buffer, k)
           /\ UNCHANGED <<state, bpm_shared, app_state, input_mode, tap_vars>>
      [] OTHER ->
           UNCHANGED <<state, bpm_shared, app_state, input_mode, input_buffer,
                       tap_vars>>

HandleKeyEventStopsAnywhere(k) ==
    IF input_mode /\ k # "q" THEN handle_input_mode(k)
    ELSE handle_normal_mode(k)

\* handle_key_event once event::read has returned the key k
handle_key_event(k) ==
    IF input_mode THEN handle_input_mode(k) ELSE handle_normal_mode(k)

-----------------------------------------------------------------------------
(* src/src/ui.rs: the interactive loop of run *)

\* one pass of the loop up to the poll: the loop test, the draw (reads
\* only), the refresh of current_bpm under the lock and the load of state
UiFrame ==
    /\ ui_pc = "frame"
    /\ IF app_state.state = Stopped
         THEN /\ ui_pc' = "done"
              /\ UNCHANGED app_state
         ELSE /\ ui_pc' = "poll"
              /\ app_state' = [current_bpm |-> bpm_shared, state |-> state]
    /\ key' = None
    /\ tap_result' = None
    /\ UNCHANGED <<clock, state, bpm_shared, args, sched_vars, input_mode,
                   input_buffer, tap_times, is_tapping, last_calculated_bpm,
                   keys_read, hist_vars, current_bpm_f64, lock_vars>>

\* event::poll(16 ms) returns false, or the event is not a key
UiNoKey ==
    /\ ui_pc = "poll"
    /\ ui_pc' = "frame"
    /\ UNCHANGED <<clock, state, bpm_shared, args, sched_vars, app_state,
                   input_mode, input_buffer, tap_vars, key, keys_read,
                   hist_vars, current_bpm_f64, lock_vars>>

\* the history of the key events: what was keyed in input mode, the states
\* the toggles started from, and the times of the taps
History(k) ==
    /\ typed' = CASE input_mode -> Append(typed, k)
                   [] k \in {"i", "Enter"} -> <<>>
                   [] OTHER -> typed
    /\ toggled_from' = CASE ~input_mode /\ k = " " -> Append(toggled_from, state)
                          [] ~input_mode /\ k = "q" -> <<>>
                          [] OTHER -> toggled_from
    /\ taps' = IF ~input_mode /\ k = "g" THEN Append(taps, clock) ELSE taps
    /\ ticks_at_stop' = IF ~input_mode /\ k = "q" /\ state # Stopped
                         THEN ramp_ticks + const_ticks ELSE ticks_at_stop
    /\ UNCHANGED <<lock_vars, current_bpm_f64>>

\* handle_key_event: event::read returns the key k, which is dispatched
KeyEvent(k) ==
    /\ input_mode /\ AcceptedChar(k) => Len(input_buffer) < MaxBuf
    /\ handle_key_event(k)
    /\ History(k)
    /\ key' = k
    /\ keys_read' = keys_read + 1

\* the poll of the loop returns true: the key k is read and handled
UiKey(k) ==
    /\ ui_pc = "poll"
    /\ KeyEvent(k)
    /\ ui_pc' = "frame"
    /\ UNCHANGED <<clock, args, sched_vars>>

-----------------------------------------------------------------------------
(* src/src/args.rs and the thread body of main: the command lines the      *)
(* specifications start from                                                *)

Plan(s, e, d, m) ==
    [ramp |-> TRUE, start_bpm |-> s, end_bpm |-> e, duration |-> d,
     measures |-> m]

NoRamp(s) ==
    [ramp |-> FALSE, start_bpm |-> s, end_bpm |-> s, duration |-> 0,
     measures |-> 1]

Plans == {Plan(180, 300, 1, 2), Plan(300, 180, 1, 3), NoRamp(2)}

PlayPlans == {Plan(180, 300, 1, 2), Plan(180, 300, 0, 2), NoRamp(2)}

FairPlans == {Plan(180, 300, 1, 2), NoRamp(2)}

PlanTempi == {30, 60, 120, 180, 300}

PlanDurations == {0, 1, 42, 60}

PlanMeasures == {1, 2, 4}

PlanGrid ==
    {Plan(s, e, d, m) : s \in PlanTempi, e \in PlanTempi,
                        d \in PlanDurations, m \in PlanMeasures}

\* a command line: -s is required; -e, -d and -m are options, absent (<<>>)
\* or given (<<v>>)
CommandLines ==
    [start : {180}, end : {<<>>, <<300>>}, duration : {<<>>, <<0>>, <<1>>},
     measures : {<<>>, <<0>>, <<1>>, <<2>>}]

\* parse_arguments: exit(1) unless -d and -m come together
ExitsWithError(cmd) == (cmd.duration = <<>>) # (cmd.measures = <<>>)

\* main: a ramp if let (Some(duration), Some(measures)), else the steady
\* phase alone; -e defaults to -s
MainArgs(cmd) ==
    IF cmd.duration # <<>> /\ cmd.measures # <<>>
    THEN Plan(cmd.start, IF cmd.end = <<>> THEN cmd.start ELSE cmd.end[1],
              cmd.duration[1], cmd.measures[1])
    ELSE NoRamp(cmd.start)

\* short ramps, up and down, with beat counts that are and are not
\* multiples of the measure, and with no beat at all
DriftPlans ==
    {Plan(s, e, d, m) : s \in {35, 131, 180}, e \in {130, 225, 300},
                        d \in {0, 1, 3}, m \in {2, 3, 4}}

\* every plan a run may start from
KnownPlans ==
    Plans \cup PlayPlans \cup FairPlans \cup PlanGrid \cup DriftPlans
    \cup {MainArgs(cmd) : cmd \in CommandLines}
    \cup {NoRamp(2), NoRamp(120)}

-----------------------------------------------------------------------------
(* src/src/metronome/mod.rs *)

TotalBeatsOne(a) == 1

\* (average_bpm * (duration / 60.0)).round() as u32, for whole numbers of
\* bpm and of seconds: the quotient and the product are each rounded to an
\* f64, and a value that is not positive is cast to 0
TotalBeats(a) ==
    IF a.start_bpm + a.end_bpm <= 0 \/ a.duration <= 0 THEN 0
    ELSE F64Round(F64HalfProduct(a.start_bpm + a.end_bpm,
                                 F64Quotient(a.duration, 60)))

\* the beat counts of the known plans, worked out once
BeatsOfPlan == [a \in KnownPlans |-> TotalBeats(a)]

\* total_beats / args.measures
NumIncrements(total, measures) == total \div measures

\* the if num_increments > 0 { .. } else { 0.0 } of bpm_increment
BpmIncrement(a, n) ==
    IF n > 0 THEN Rat(a.end_bpm - a.start_bpm, n) ELSE RInt(0)

IncrementFiresOnLast(b, measures, total) == (b + 1) % measures = 0

\* (beat + 1) % args.measures == 0 && (beat + 1) < total_beats
IncrementFires(b, measures, total) == (b + 1) % measures = 0 /\ (b + 1) < total

FinalTempoAccumulated(a) == current_bpm

\* the tempo run_progressive stores when it leaves its loop
FinalTempo(a) == RInt(a.end_bpm)

\* Duration::from_secs_f64(60.0 / current_bpm), in whole ms
BeatMs(bpm) == (60000 * bpm[2]) \div bpm[1]

\* the thread body: run_progressive if a ramp was asked for, then
\* run_constant
SchedStart ==
    /\ sched_pc = "start"
    /\ IF args.ramp /\ args.measures = 0
         THEN \* total_beats / args.measures: attempt to divide by zero
              /\ total_beats' = BeatsOfPlan[args]
              /\ sched_pc' = "panicked"
              /\ UNCHANGED <<num_increments, bpm_increment, current_bpm,
                             next_beat>>
         ELSE IF args.ramp
         THEN LET total == BeatsOfPlan[args]
                  increments == NumIncrements(total, args.measures)
              IN  /\ total_beats' = total
                  /\ num_increments' = increments
                  /\ bpm_increment' = BpmIncrement(args, increments)
              /\ current_bpm' = RInt(args.start_bpm)
              /\ next_beat' = clock
              /\ sched_pc' = "r_loop"
         ELSE /\ sched_pc' = "c_start"
              /\ UNCHANGED <<total_beats, num_increments, bpm_increment,
                             current_bpm, next_beat>>
    /\ UNCHANGED <<clock, state, bpm_shared, args, beat, current_state,
                   sleep_until, ramp_ticks, fired, ui_vars, tap_vars>>
    /\ UNCHANGED <<const_ticks, seen_stop>>

\* for beat in 0..total_beats: the loop test, the load and the break
RampLoop ==
    /\ sched_pc = "r_loop"
    /\ IF beat >= total_beats
         THEN /\ sched_pc' = "r_final"
              /\ UNCHANGED current_state
         ELSE /\ current_state' = state
              /\ sched_pc' = CASE state = Stopped -> "r_final"
                                [] state = Running -> "r_tick"
                                [] OTHER -> "r_paused"
    /\ UNCHANGED <<clock, state, bpm_shared, args, beat, total_beats,
                   num_increments, bpm_increment, current_bpm, next_beat,
                   sleep_until, ramp_ticks, fired, ui_vars, tap_vars>>
    /\ seen_stop' = (seen_stop \/ (beat < total_beats /\ state = Stopped))
    /\ UNCHANGED const_ticks

\* play_tick of the ramp
RampTick ==
    /\ sched_pc = "r_tick"
    /\ ramp_ticks' = ramp_ticks + 1
    /\ sched_pc' = "r_paused"
    /\ UNCHANGED <<clock, state, bpm_shared, args, beat, total_beats,
                   num_increments, bpm_increment, current_bpm, current_state,
                   next_beat, sleep_until, fired, ui_vars, tap_vars>>
    /\ UNCHANGED <<const_ticks, seen_stop>>

\* while state.load() == Paused: the test, and the start of the 100 ms sleep
RampPausedTest ==
    /\ sched_pc = "r_paused"
    /\ IF state = Paused
         THEN /\ sleep_until' = clock + PAUSE_POLL_MS
              /\ sched_pc' = "r_poll"
         ELSE /\ sched_pc' = "r_sched"
              /\ UNCHANGED sleep_until
    /\ UNCHANGED <<clock, state, bpm_shared, args, beat, total_beats,
                   num_increments, bpm_increment, current_bpm, current_state,
                   next_beat, ramp_ticks, fired, ui_vars, tap_vars>>
    /\ seen_stop' = (seen_stop \/ (state = Stopped))
    /\ UNCHANGED const_ticks

\* the sleep is over: if state.load() == Stopped { return }
RampPoll ==
    /\ sched_pc = "r_poll"
    /\ clock >= sleep_until
    /\ sched_pc' = IF state = Stopped THEN "c_start" ELSE "r_paused"
    /\ UNCHANGED <<clock, state, bpm_shared, args, beat, total_beats,
                   num_increments, bpm_increment, current_bpm, current_state,
                   next_beat, sleep_until, ramp_ticks, fired, ui_vars,
                   tap_vars>>
    /\ seen_stop' = (seen_stop \/ (state = Stopped))
    /\ UNCHANGED const_ticks

RampScheduleNoResync ==
    /\ sched_pc = "r_sched"
    /\ next_beat' = next_beat + BeatMs(current_bpm)
    /\ sched_pc' = IF next_beat' > clock THEN "r_sleep" ELSE "r_inc"
    /\ UNCHANGED <<clock, state, bpm_shared, args, beat, total_beats,
                   num_increments, bpm_increment, current_bpm, current_state,
                   sleep_until, ramp_ticks, const_ticks, seen_stop, fired,
                   ui_vars, tap_vars>>

\* next_beat += beat_duration; sleep to it, or resynchronise
RampSchedule ==
    /\ sched_pc = "r_sched"
    /\ LET anchor == next_beat + BeatMs(current_bpm)
       IN  IF anchor > clock
           THEN /\ next_beat' = anchor
                /\ sched_pc' = "r_sleep"
           ELSE /\ next_beat' = clock
                /\ sched_pc' = "r_inc"
    /\ UNCHANGED <<clock, state, bpm_shared, args, beat, total_beats,
                   num_increments, bpm_increment, current_bpm, current_state,
                   sleep_until, ramp_ticks, fired, ui_vars, tap_vars>>
    /\ UNCHANGED <<const_ticks, seen_stop>>

\* sleep(next_beat - now) returns
RampWake ==
    /\ sched_pc = "r_sleep"
    /\ clock >= next_beat
    /\ sched_pc' = "r_inc"
    /\ UNCHANGED <<clock, state, bpm_shared, args, beat, total_beats,
                   num_increments, bpm_increment, current_bpm, current_state,
                   next_beat, sleep_until, ramp_ticks, fired, ui_vars,
                   tap_vars>>
    /\ UNCHANGED <<const_ticks, seen_stop>>

RampIncrementFromStore ==
    /\ sched_pc = "r_inc"
    /\ IF IncrementFires(beat, args.measures, total_beats)
         THEN /\ current_bpm' = RAdd(bpm_shared, bpm_increment)
              /\ bpm_shared' = current_bpm'
              /\ fired' = fired \cup {beat + 1}
         ELSE UNCHANGED <<current_bpm, bpm_shared, fired>>
    /\ beat' = beat + 1
    /\ sched_pc' = "r_loop"
    /\ UNCHANGED <<clock, state, args, total_beats, num_increments,
                   bpm_increment, current_state, next_beat, sleep_until,
                   ramp_ticks, ui_vars, tap_vars>>
    /\ UNCHANGED <<const_ticks, seen_stop>>

\* the increment at the end of the loop body, and the step to the next beat
RampIncrement ==
    /\ sched_pc = "r_inc"
    /\ IF IncrementFires(beat, args.measures, total_beats)
         THEN /\ current_bpm' = RAdd(current_bpm, bpm_increment)
              /\ bpm_shared' = current_bpm'
              /\ fired' = fired \cup {beat + 1}
         ELSE UNCHANGED <<current_bpm, bpm_shared, fired>>
    /\ beat' = beat + 1
    /\ sched_pc' = "r_loop"
    /\ UNCHANGED <<clock, state, args, total_beats, num_increments,
                   bpm_increment, current_state, next_beat, sleep_until,
                   ramp_ticks, ui_vars, tap_vars>>
    /\ UNCHANGED <<const_ticks, seen_stop>>

\* after the loop: *bpm = args.end_bpm, and run_progressive returns
RampFinal ==
    /\ sched_pc = "r_final"
    /\ bpm_shared' = FinalTempo(args)
    /\ sched_pc' = "c_start"
    /\ UNCHANGED <<clock, state, args, beat, total_beats, num_increments,
                   bpm_increment, current_bpm, current_state, next_beat,
                   sleep_until, ramp_ticks, fired, ui_vars, tap_vars>>
    /\ UNCHANGED <<const_ticks, seen_stop>>

\* run_constant: let mut next_beat = Instant::now()
ConstStart ==
    /\ sched_pc = "c_start"
    /\ next_beat' = clock
    /\ sched_pc' = "c_loop"
    /\ UNCHANGED <<clock, state, bpm_shared, args, beat, total_beats,
                   num_increments, bpm_increment, current_bpm, current_state,
                   sleep_until, ramp_ticks, fired, ui_vars, tap_vars>>
    /\ UNCHANGED <<const_ticks, seen_stop>>

ConstLoopIgnoresStop ==
    /\ sched_pc = "c_loop"
    /\ sched_pc' = "c_read"
    /\ seen_stop' = (seen_stop \/ state = Stopped)
    /\ UNCHANGED <<clock, state, bpm_shared, args, beat, total_beats,
                   num_increments, bpm_increment, current_bpm, current_state,
                   next_beat, sleep_until, ramp_ticks, const_ticks, fired,
                   ui_vars, tap_vars>>

\* while state.load() != Stopped
ConstLoop ==
    /\ sched_pc = "c_loop"
    /\ sched_pc' = IF state = Stopped THEN "done" ELSE "c_read"
    /\ UNCHANGED <<clock, state, bpm_shared, args, beat, total_beats,
                   num_increments, bpm_increment, current_bpm, current_state,
                   next_beat, sleep_until, ramp_ticks, fired, ui_vars,
                   tap_vars>>
    /\ seen_stop' = (seen_stop \/ (state = Stopped))
    /\ UNCHANGED const_ticks

ConstReadStale ==
    /\ sched_pc = "c_read"
    /\ current_bpm' = IF const_ticks = 0 THEN bpm_shared ELSE current_bpm
    /\ sched_pc' = "c_load"
    /\ UNCHANGED <<clock, state, bpm_shared, args, beat, total_beats,
                   num_increments, bpm_increment, current_state, next_beat,
                   sleep_until, ramp_ticks, const_ticks, seen_stop, fired,
                   ui_vars, tap_vars>>

\* let current_bpm = *bpm_shared.lock()
ConstRead ==
    /\ sched_pc = "c_read"
    /\ current_bpm' = bpm_shared
    /\ sched_pc' = "c_load"
    /\ UNCHANGED <<clock, state, bpm_shared, args, beat, total_beats,
                   num_increments, bpm_increment, current_state, next_beat,
                   sleep_until, ramp_ticks, fired, ui_vars, tap_vars>>
    /\ UNCHANGED <<const_ticks, seen_stop>>

ConstLoadTicksUnlessPaused ==
    /\ sched_pc = "c_load"
    /\ current_state' = state
    /\ sched_pc' = IF state = Paused THEN "c_pause" ELSE "c_tick"
    /\ sleep_until' = IF state = Paused THEN clock + PAUSE_POLL_MS
                       ELSE sleep_until
    /\ seen_stop' = (seen_stop \/ state = Stopped)
    /\ UNCHANGED <<clock, state, bpm_shared, args, beat, total_beats,
                   num_increments, bpm_increment, current_bpm, next_beat,
                   ramp_ticks, const_ticks, fired, ui_vars, tap_vars>>

\* let current_state = state.load(), and the branch on it
ConstLoad ==
    /\ sched_pc = "c_load"
    /\ current_state' = state
    /\ sched_pc' = CASE state = Running -> "c_tick"
                      [] state = Paused -> "c_pause"
                      [] OTHER -> "c_loop"
    /\ sleep_until' = IF state = Paused THEN clock + PAUSE_POLL_MS
                       ELSE sleep_until
    /\ UNCHANGED <<clock, state, bpm_shared, args, beat, total_beats,
                   num_increments, bpm_increment, current_bpm, next_beat,
                   ramp_ticks, fired, ui_vars, tap_vars>>
    /\ seen_stop' = (seen_stop \/ (state = Stopped))
    /\ UNCHANGED const_ticks

\* play_tick of the steady phase, then the schedule of the next beat
ConstTick ==
    /\ sched_pc = "c_tick"
    /\ LET anchor == next_beat + BeatMs(current_bpm)
       IN  IF anchor > clock
           THEN /\ next_beat' = anchor
                /\ sched_pc' = "c_sleep"
           ELSE /\ next_beat' = clock
                /\ sched_pc' = "c_loop"
    /\ UNCHANGED <<clock, state, bpm_shared, args, beat, total_beats,
                   num_increments, bpm_increment, current_bpm, current_state,
                   sleep_until, ramp_ticks, fired, ui_vars, tap_vars>>
    /\ const_ticks' = const_ticks + 1
    /\ UNCHANGED seen_stop

\* sleep(next_beat - now) returns
ConstWake ==
    /\ sched_pc = "c_sleep"
    /\ clock >= next_beat
    /\ sched_pc' = "c_loop"
    /\ UNCHANGED <<clock, state, bpm_shared, args, beat, total_beats,
                   num_increments, bpm_increment, current_bpm, current_state,
                   next_beat, sleep_until, ramp_ticks, fired, ui_vars,
                   tap_vars>>
    /\ UNCHANGED <<const_ticks, seen_stop>>

ConstPauseResumes ==
    /\ sched_pc = "c_pause"
    /\ clock >= sleep_until
    /\ next_beat' = clock
    /\ state' = Running
    /\ sched_pc' = "c_loop"
    /\ UNCHANGED <<clock, bpm_shared, args, beat, total_beats,
                   num_increments, bpm_increment, current_bpm, current_state,
                   sleep_until, ramp_ticks, const_ticks, seen_stop, fired,
                   ui_vars, tap_vars>>

ConstPauseKeepsAnchor ==
    /\ sched_pc = "c_pause"
    /\ clock >= sleep_until
    /\ sched_pc' = "c_loop"
    /\ UNCHANGED <<clock, state, bpm_shared, args, beat, total_beats,
                   num_increments, bpm_increment, current_bpm, current_state,
                   next_beat, sleep_until, ramp_ticks, const_ticks, seen_stop,
                   fired, ui_vars, tap_vars>>

\* the 100 ms slice of a paused iteration is over: next_beat = now
ConstPause ==
    /\ sched_pc = "c_pause"
    /\ clock >= sleep_until
    /\ next_beat' = clock
    /\ sched_pc' = "c_loop"
    /\ UNCHANGED <<clock, state, bpm_shared, args, beat, total_beats,
                   num_increments, bpm_increment, current_bpm, current_state,
                   sleep_until, ramp_ticks, fired, ui_vars, tap_vars>>
    /\ UNCHANGED <<const_ticks, seen_stop>>

Scheduler ==
    \/ SchedStart \/ RampLoop \/ RampTick \/ RampPausedTest \/ RampPoll
    \/ RampSchedule \/ RampWake \/ RampIncrement \/ RampFinal
    \/ ConstStart \/ ConstLoop \/ ConstRead \/ ConstLoad \/ ConstTick
    \/ ConstWake \/ ConstPause

-----------------------------------------------------------------------------
(* The clock *)

Advance(d, horizon) ==
    /\ clock + d <= horizon
    /\ clock' = clock + d
    /\ UNCHANGED <<state, bpm_shared, args, sched_vars, ui_vars, tap_vars>>

-----------------------------------------------------------------------------
(* The program: main spawns the interactive loop and the scheduler thread *)

\* the state in which main leaves the program once the arguments are read:
\* either both threads at their first statement, or the process gone
InitAt(plans, run_states, first_sched_pc, first_ui_pc) ==
    /\ args \in plans
    /\ clock = 0
    /\ state \in run_states
    /\ bpm_shared = RInt(args.start_bpm)
    /\ sched_pc = first_sched_pc
    /\ beat = 0
    /\ total_beats = 0
    /\ num_increments = 0
    /\ bpm_increment = RInt(0)
    /\ current_bpm = RInt(args.start_bpm)
    /\ current_state = Running
    /\ next_beat = 0
    /\ sleep_until = 0
    /\ ui_pc = first_ui_pc
    /\ app_state = [current_bpm |-> RInt(args.start_bpm), state |-> state]
    /\ input_mode = FALSE
    /\ input_buffer = <<>>
    /\ tap_times = <<>>
    /\ is_tapping = FALSE
    /\ last_calculated_bpm = None
    /\ key = None
    /\ tap_result = None
    /\ keys_read = 0
    /\ ramp_ticks = 0
    /\ const_ticks = 0
    /\ seen_stop = FALSE
    /\ ticks_at_stop = 0
    /\ fired = {}
    /\ typed = <<>>
    /\ toggled_from = <<>>
    /\ taps = <<>>
    /\ bpm_lock = "free"
    /\ bpm_read = RInt(0)
    /\ bpm_committed = bpm_shared
    /\ current_bpm_f64 = F64OfInt(args.start_bpm)

InitWith(plans, run_states) == InitAt(plans, run_states, "start", "frame")

Keys == {"k", "j", "q", " ", "g", "i", "Enter", "5"}

Init == InitWith(Plans, {Running})

Next ==
    \/ Scheduler
    \/ UiFrame
    \/ UiNoKey
    \/ \E k \in Keys : keys_read < MaxKeys /\ UiKey(k)
    \/ Advance(500, Horizon)

Spec == Init /\ [][Next]_vars

-----------------------------------------------------------------------------
(* The key handlers alone, called in any run state: handle_key_event is    *)
(* applied to every sequence of keys, from each value the shared run state *)
(* can be constructed with.                                                *)

AllKeys == {"k", "j", "q", " ", "g", "i", "Enter", "Esc", "Backspace",
            "5", "0", ".", "-", "a"}

InitKeys == InitWith({NoRamp(2)}, MetronomeState)

HandleKey(k) ==
    /\ keys_read < MaxKeyEvents
    /\ KeyEvent(k)
    /\ UNCHANGED <<clock, args, sched_vars, ui_pc>>

NextKeys ==
    \/ \E k \in AllKeys : HandleKey(k)
    \/ Advance(500, Horizon)

SpecKeys == InitKeys /\ [][NextKeys]_vars

-----------------------------------------------------------------------------
(* The tap-tempo estimator alone: taps at any of the clock's times *)

InitTap == InitWith({NoRamp(120)}, {Running})

Tap ==
    /\ keys_read < MaxTaps
    /\ KeyEvent("g")
    /\ UNCHANGED <<clock, args, sched_vars, ui_pc>>

NextTap ==
    \/ Tap
    \/ \E d \in {500, 5001} : Advance(d, TapHorizon)

SpecTap == InitTap /\ [][NextTap]_vars

-----------------------------------------------------------------------------
(* The tap-tempo estimator under quick taps: the clock moves in steps of   *)
(* 50 ms, so that taps 50 ms, 200 ms and 500 ms apart all occur.           *)

TapFine ==
    /\ keys_read < MaxFineTaps
    /\ KeyEvent("g")
    /\ UNCHANGED <<clock, args, sched_vars, ui_pc>>

NextTapFine ==
    \/ TapFine
    \/ \E d \in {50, 500} : Advance(d, FineHorizon)

SpecTapFine == InitTap /\ [][NextTapFine]_vars

-----------------------------------------------------------------------------
(* The whole program with an operator who only nudges the tempo, pauses,   *)
(* resumes and stops, started with a ramp, with a ramp of no duration and  *)
(* with no ramp.                                                            *)

PlayKeys == {"k", " ", "q"}

InitPlay == InitWith(PlayPlans, {Running})

NextPlay ==
    \/ Scheduler
    \/ UiFrame
    \/ UiNoKey
    \/ \E k \in PlayKeys : keys_read < MaxKeys /\ UiKey(k)
    \/ Advance(500, Horizon)

SpecPlay == InitPlay /\ [][NextPlay]_vars

-----------------------------------------------------------------------------
(* The same program with the guarantees of its platform: a thread that can *)
(* run does run, the interactive loop keeps turning, and a sleep ends, for *)
(* time passes.  Time is followed beyond the horizon only once Stopped is  *)
(* stored, up to the end of the sleep the scheduler is in.                 *)

SleepPcs == {"r_sleep", "c_sleep", "r_poll", "c_pause"}

WakeTime == IF sched_pc \in {"r_sleep", "c_sleep"} THEN next_beat
            ELSE sleep_until

SleepEnds ==
    /\ state = Stopped
    /\ sched_pc \in SleepPcs
    /\ clock < WakeTime
    /\ clock' = WakeTime
    /\ UNCHANGED <<state, bpm_shared, args, sched_vars, ui_vars, tap_vars>>

FairKeys == {" ", "q"}

InitPlayFair == InitWith(FairPlans, {Running})

NextPlayFair ==
    \/ Scheduler
    \/ UiFrame
    \/ UiNoKey
    \/ \E k \in FairKeys : keys_read < MaxFairKeys /\ UiKey(k)
    \/ Advance(500, FairHorizon)
    \/ SleepEnds

SpecPlayFair ==
    /\ InitPlayFair
    /\ [][NextPlayFair]_vars
    /\ WF_vars(Scheduler)
    /\ WF_vars(SleepEnds)
    /\ WF_vars(UiFrame)

-----------------------------------------------------------------------------
(* The same program at the grain of the Mutex of bpm_shared: lock() is a   *)
(* step that waits for the lock to be free, the statements made through    *)
(* the guard are steps of their own, and the guard is dropped at the end   *)
(* of its block.  The operator nudges the tempo, pauses, resumes and       *)
(* stops.  A thread inside a guarded block runs to its end.  A thread      *)
(* blocked in lock() is woken when the lock is released, and the other     *)
(* thread does not come back for the lock before it has drawn a frame and  *)
(* polled the terminal, or ticked and slept: a lock() that can return      *)
(* again and again does return.                                            *)

MaxLockKeys == 2        \* SpecLock: key events read in one run
MaxLockClockSteps == 2  \* SpecLock: clock advances of 500 ms in one run

LockHorizon == MaxLockClockSteps * 500

LockPlans == {Plan(180, 300, 1, 2), Plan(180, 300, 0, 2)}

LockKeys == {"k", "j", " ", "q"}

\* the positions at which a thread is inside bpm_shared.lock()
SchedWaitPcs == {"r_inc_lock", "r_final", "c_read"}

UiWaitPcs == {"frame_lock", "key_lock"}

\* the positions at which a thread holds the guard
SchedHeldPcs == {"r_inc_held", "r_final_held", "c_read_held"}

UiHeldPcs == {"frame_held", "key_held", "key_loaded", "key_stored"}

ui_own_vars == <<ui_pc, app_state, input_mode, input_buffer, key, keys_read,
                 hist_vars, current_bpm_f64>>

\* run_progressive: current_bpm += bpm_increment, before the lock is taken
LockRampIncrement ==
    /\ sched_pc = "r_inc"
    /\ IF IncrementFires(beat, args.measures, total_beats)
         THEN /\ current_bpm' = RAdd(current_bpm, bpm_increment)
              /\ fired' = fired \cup {beat + 1}
              /\ sched_pc' = "r_inc_lock"
              /\ UNCHANGED beat
         ELSE /\ beat' = beat + 1
              /\ sched_pc' = "r_loop"
              /\ UNCHANGED <<current_bpm, fired>>
    /\ UNCHANGED <<clock, state, bpm_shared, args, total_beats, num_increments,
                   bpm_increment, current_state, next_beat, sleep_until,
                   ramp_ticks, const_ticks, seen_stop, ui_vars, tap_vars>>

LockSchedAcquireUnguarded ==
    /\ sched_pc \in SchedWaitPcs
    /\ bpm_lock' = "sched"
    /\ sched_pc' = CASE sched_pc = "r_inc_lock" -> "r_inc_held"
                     [] sched_pc = "r_final" -> "r_final_held"
                     [] sched_pc = "c_read" -> "c_read_held"
    /\ UNCHANGED <<clock, state, bpm_shared, args, beat, total_beats,
                   num_increments, bpm_increment, current_bpm, current_state,
                   next_beat, sleep_until, ramp_ticks, const_ticks, seen_stop,
                   fired, ui_own_vars, bpm_read, bpm_committed, tap_vars>>

\* the scheduler's bpm_shared.lock().unwrap(): returns once the lock is free
LockSchedAcquire ==
    /\ sched_pc \in SchedWaitPcs
    /\ bpm_lock = "free"
    /\ bpm_lock' = "sched"
    /\ sched_pc' = CASE sched_pc = "r_inc_lock" -> "r_inc_held"
                     [] sched_pc = "r_final" -> "r_final_held"
                     [] sched_pc = "c_read" -> "c_read_held"
    /\ UNCHANGED <<clock, state, bpm_shared, args, beat, total_beats,
                   num_increments, bpm_increment, current_bpm, current_state,
                   next_beat, sleep_until, ramp_ticks, const_ticks, seen_stop,
                   fired, ui_own_vars, bpm_read, bpm_committed, tap_vars>>

\* run_progressive: *bpm = current_bpm and the end of the block
LockRampPublish ==
    /\ sched_pc = "r_inc_held"
    /\ bpm_shared' = current_bpm
    /\ bpm_committed' = current_bpm
    /\ bpm_lock' = "free"
    /\ beat' = beat + 1
    /\ sched_pc' = "r_loop"
    /\ UNCHANGED <<clock, state, args, total_beats, num_increments,
                   bpm_increment, current_bpm, current_state, next_beat,
                   sleep_until, ramp_ticks, const_ticks, seen_stop, fired,
                   ui_own_vars, bpm_read, tap_vars>>

\* run_progressive: *bpm = args.end_bpm and the end of the block
LockRampFinal ==
    /\ sched_pc = "r_final_held"
    /\ bpm_shared' = FinalTempo(args)
    /\ bpm_committed' = FinalTempo(args)
    /\ bpm_lock' = "free"
    /\ sched_pc' = "c_start"
    /\ UNCHANGED <<clock, state, args, beat, total_beats, num_increments,
                   bpm_increment, current_bpm, current_state, next_beat,
                   sleep_until, ramp_ticks, const_ticks, seen_stop, fired,
                   ui_own_vars, bpm_read, tap_vars>>

\* run_constant: *bpm is copied and the block ends
LockConstRead ==
    /\ sched_pc = "c_read_held"
    /\ current_bpm' = bpm_shared
    /\ bpm_committed' = bpm_shared
    /\ bpm_lock' = "free"
    /\ sched_pc' = "c_load"
    /\ UNCHANGED <<clock, state, bpm_shared, args, beat, total_beats,
                   num_increments, bpm_increment, current_state, next_beat,
                   sleep_until, ramp_ticks, const_ticks, seen_stop, fired,
                   ui_own_vars, bpm_read, tap_vars>>

\* the steps the scheduler makes while it holds the guard
SchedSection == LockRampPublish \/ LockRampFinal \/ LockConstRead

LockScheduler ==
    \/ SchedStart
    \/ RampLoop
    \/ RampTick
    \/ RampPausedTest
    \/ RampPoll
    \/ RampSchedule
    \/ RampWake
    \/ LockRampIncrement
    \/ LockSchedAcquire
    \/ SchedSection
    \/ ConstStart
    \/ ConstLoop
    \/ ConstLoad
    \/ ConstTick
    \/ ConstWake
    \/ ConstPause

\* run: the loop test and the draw, which takes no lock
LockUiFrame ==
    /\ ui_pc = "frame"
    /\ ui_pc' = IF app_state.state = Stopped THEN "done" ELSE "frame_lock"
    /\ key' = None
    /\ tap_result' = None
    /\ UNCHANGED <<clock, state, bpm_shared, args, sched_vars, app_state,
                   input_mode, input_buffer, tap_times, is_tapping,
                   last_calculated_bpm, keys_read, hist_vars,
                   current_bpm_f64, lock_vars>>

\* the interactive loop's bpm_shared.lock(): returns once the lock is free
LockUiAcquire ==
    /\ ui_pc \in UiWaitPcs
    /\ bpm_lock = "free"
    /\ bpm_lock' = "ui"
    /\ ui_pc' = IF ui_pc = "frame_lock" THEN "frame_held" ELSE "key_held"
    /\ UNCHANGED <<clock, state, bpm_shared, args, sched_vars, app_state,
                   input_mode, input_buffer, tap_vars, key, keys_read,
                   hist_vars, current_bpm_f64, bpm_read, bpm_committed>>

LockUiRefreshKeepsGuard ==
    /\ ui_pc = "frame_held"
    /\ app_state' = [current_bpm |-> bpm_shared, state |-> state]
    /\ bpm_committed' = bpm_shared
    /\ ui_pc' = "poll"
    /\ UNCHANGED <<clock, state, bpm_shared, args, sched_vars, input_mode,
                   input_buffer, tap_vars, key, keys_read, hist_vars,
                   current_bpm_f64,
                   bpm_lock, bpm_read>>

\* run: app_state.current_bpm = *new_bpm, the end of the if let, and the
\* load of the run state that follows it
LockUiRefresh ==
    /\ ui_pc = "frame_held"
    /\ app_state' = [current_bpm |-> bpm_shared, state |-> state]
    /\ bpm_committed' = bpm_shared
    /\ bpm_lock' = "free"
    /\ ui_pc' = "poll"
    /\ UNCHANGED <<clock, state, bpm_shared, args, sched_vars, input_mode,
                   input_buffer, tap_vars, key, keys_read, hist_vars,
                   current_bpm_f64,
                   bpm_read>>

\* the poll returns true and the key k is read: 'k' and 'j' go for the
\* lock, the other keys are handled as before
LockUiKey(k) ==
    /\ keys_read < MaxLockKeys
    /\ IF ~input_mode /\ k \in {"k", "j"}
         THEN /\ ui_pc = "poll"
              /\ ui_pc' = "key_lock"
              /\ key' = k
              /\ keys_read' = keys_read + 1
              /\ UNCHANGED <<clock, state, bpm_shared, args, sched_vars,
                             app_state, input_mode, input_buffer, tap_vars,
                             hist_vars, current_bpm_f64, lock_vars>>
         ELSE UiKey(k)

\* 'k' and 'j': the read of *bpm through the guard
LockUiLoad ==
    /\ ui_pc = "key_held"
    /\ bpm_read' = bpm_shared
    /\ ui_pc' = "key_loaded"
    /\ UNCHANGED <<clock, state, bpm_shared, args, sched_vars, app_state,
                   input_mode, input_buffer, tap_vars, key, keys_read,
                   hist_vars, current_bpm_f64, bpm_lock, bpm_committed>>

\* 'k': *bpm += 1.0; 'j': if *bpm > 1.0 { *bpm -= 1.0 }
LockUiStore ==
    /\ ui_pc = "key_loaded"
    /\ bpm_shared' = CASE key = "k" -> RAdd(bpm_read, RInt(1))
                       [] key = "j" /\ DecreaseGuard(bpm_read) ->
                            RSub(bpm_read, RInt(1))
                       [] OTHER -> bpm_shared
    /\ ui_pc' = "key_stored"
    /\ UNCHANGED <<clock, state, args, sched_vars, app_state, input_mode,
                   input_buffer, tap_vars, key, keys_read, hist_vars,
                   current_bpm_f64,
                   lock_vars>>

\* 'k' and 'j': self.current_bpm = *bpm where the store was written, and
\* the end of the match arm
LockUiRelease ==
    /\ ui_pc = "key_stored"
    /\ app_state' = IF key = "k" \/ DecreaseGuard(bpm_read)
                      THEN [app_state EXCEPT !.current_bpm = bpm_shared]
                      ELSE app_state
    /\ bpm_committed' = bpm_shared
    /\ bpm_lock' = "free"
    /\ ui_pc' = "frame"
    /\ UNCHANGED <<clock, state, bpm_shared, args, sched_vars, input_mode,
                   input_buffer, tap_vars, key, keys_read, hist_vars,
                   current_bpm_f64,
                   bpm_read>>

\* the steps the interactive loop makes while it holds the guard
UiSection == LockUiRefresh \/ LockUiLoad \/ LockUiStore \/ LockUiRelease

InitLock == InitWith(LockPlans, {Running})

NextLock ==
    \/ LockScheduler
    \/ LockUiFrame
    \/ LockUiAcquire
    \/ UiSection
    \/ UiNoKey
    \/ \E k \in LockKeys : LockUiKey(k)
    \/ Advance(500, LockHorizon)

SpecLock ==
    /\ InitLock
    /\ [][NextLock]_vars
    /\ WF_vars(SchedSection)
    /\ WF_vars(UiSection)
    /\ SF_vars(LockSchedAcquire)
    /\ SF_vars(LockUiAcquire)

-----------------------------------------------------------------------------
(* The ramp in the arithmetic of the machine: bpm_increment and            *)
(* current_bpm are f64, so that every increment is a rounded quotient and  *)
(* every current_bpm += bpm_increment a rounded sum.  Nobody is at the     *)
(* keyboard, and each sleep ends at the instant it was asked to.           *)

\* (args.end_bpm - args.start_bpm) / num_increments as f64 if there is an
\* increment: its magnitude, and whether it is negative
F64Increment(a, n) ==
    [neg |-> a.end_bpm < a.start_bpm,
     mag |-> IF n > 0 /\ a.end_bpm # a.start_bpm
               THEN F64Quotient(Abs(a.end_bpm - a.start_bpm), n)
               ELSE F64OfInt(0)]

\* current_bpm += bpm_increment
F64Accumulate(x, inc) ==
    IF inc.neg THEN F64Sub(x, inc.mag) ELSE F64Add(x, inc.mag)

\* the end of the loop body with the f64 that is published
F64RampIncrement ==
    /\ sched_pc = "r_inc"
    /\ IF IncrementFires(beat, args.measures, total_beats)
         THEN /\ current_bpm' = RAdd(current_bpm, bpm_increment)
              /\ current_bpm_f64' =
                    F64Accumulate(current_bpm_f64,
                                  F64Increment(args, num_increments))
              /\ bpm_shared' = current_bpm'
              /\ fired' = fired \cup {beat + 1}
         ELSE UNCHANGED <<current_bpm, current_bpm_f64, bpm_shared, fired>>
    /\ beat' = beat + 1
    /\ sched_pc' = "r_loop"
    /\ UNCHANGED <<clock, state, args, total_beats, num_increments,
                   bpm_increment, current_state, next_beat, sleep_until,
                   ramp_ticks, const_ticks, seen_stop, ui_pc, app_state,
                   input_mode, input_buffer, key, keys_read, hist_vars,
                   lock_vars, tap_vars>>

\* thread::sleep(next_beat - now) returns
RampSleepEnds ==
    /\ sched_pc = "r_sleep"
    /\ clock < next_beat
    /\ clock' = next_beat
    /\ UNCHANGED <<state, bpm_shared, args, sched_vars, ui_vars, tap_vars>>

InitDrift == InitWith(DriftPlans, {Running})

NextDrift ==
    \/ SchedStart \/ RampLoop \/ RampTick \/ RampPausedTest
    \/ RampSchedule \/ RampSleepEnds \/ RampWake \/ F64RampIncrement
    \/ RampFinal

SpecDrift == InitDrift /\ [][NextDrift]_vars

-----------------------------------------------------------------------------
(* The scheduler thread alone, nobody at the keyboard: every ramp of a     *)
(* grid of command lines is planned and then played for as long as the     *)
(* clock runs.                                                              *)

InitPlan == InitWith(PlanGrid, {Running})

NextPlan ==
    \/ SchedStart \/ RampLoop \/ RampTick \/ RampPausedTest
    \/ RampSchedule \/ RampWake \/ RampIncrement \/ RampFinal
    \/ ConstStart \/ ConstLoop \/ ConstRead \/ ConstLoad \/ ConstTick
    \/ ConstWake
    \/ Advance(500, Horizon)

SpecPlan == InitPlan /\ [][NextPlan]_vars

-----------------------------------------------------------------------------
(* From the command line to the scheduler: parse_arguments, then the       *)
(* thread body of main, with nobody at the keyboard.                        *)

InitArgs ==
    \E cmd \in CommandLines :
        IF ExitsWithError(cmd)
        THEN InitAt({NoRamp(cmd.start)}, {Running}, "exit", "exit")
        ELSE InitAt({MainArgs(cmd)}, {Running}, "start", "frame")

SpecArgs == InitArgs /\ [][NextPlan]_vars

-----------------------------------------------------------------------------
(* Properties *)

\* the step in which handle_normal_mode handles the key k
NormalKey(k) == ~input_mode /\ key' = k /\ keys_read' = keys_read + 1

\* the step in which handle_input_mode handles the key k
InputKey(k) == input_mode /\ key' = k /\ keys_read' = keys_read + 1

\* C1: a stop command stores Stopped, and no step of the operator surface or
\* of the scheduler changes the run state once it is Stopped.
C1_StoppedAbsorbing ==
    [][/\ NormalKey("q") => state' = Stopped
       /\ state = Stopped => state' = Stopped]_vars

\* C1 witness: Stopped was stored while the scheduler was paused, and the
\* scheduler has run to its end since.
C1_Witness ==
    /\ state = Stopped
    /\ current_state = Paused
    /\ sched_pc = "done"
    /\ ui_pc = "done"

\* C2: a toggle maps Running to Paused, Paused to Running and Stopped to
\* Stopped, and the second of two toggles with no other store in between
\* restores the state the first one started from.
C2_Toggle ==
    [][NormalKey(" ") =>
         /\ state = Running => state' = Paused
         /\ state = Paused => state' = Running
         /\ state = Stopped => state' = Stopped
         /\ toggled_from # <<>> => state' = Last(toggled_from)]_vars

\* C2 witness: two toggles in a row, from Running to Paused and back.
C2_Witness ==
    /\ toggled_from = <<Running, Paused>>
    /\ state = Running
    /\ key = " "

\* C3: when the ramp loop has run through all its beats, the step in which
\* run_progressive returns leaves end_bpm in the tempo store.
C3_RampEndsAtEndBpm ==
    [][sched_pc = "r_final" /\ sched_pc' = "c_start" /\ beat = total_beats
         => bpm_shared' = RInt(args.end_bpm)]_vars

\* C3 witness: a completed ramp whose accumulated tempo is not end_bpm and
\* during which the operator raised the tempo: the store holds end_bpm.
C3_Witness ==
    /\ sched_pc = "c_start"
    /\ args.ramp
    /\ total_beats > 0
    /\ beat = total_beats
    /\ current_bpm # RInt(args.end_bpm)
    /\ key = "k"
    /\ app_state.current_bpm # RInt(args.end_bpm)
    /\ bpm_shared = RInt(args.end_bpm)

\* the integer nearest to n / d for n >= 0 and d > 0, halves upwards
NearestInteger(n, d) == (2 * n + d) \div (2 * d)

\* C4: once a ramp is planned, total_beats is
\* round(((start_bpm + end_bpm) / 2) * duration / 60), num_increments is
\* floor(total_beats / measures), and increment_delta is
\* (end_bpm - start_bpm) / num_increments when num_increments > 0 and 0
\* otherwise; 60 -> 120 over 60 s with 4 beats a measure gives 90 beats,
\* 22 increments and a delta of 60/22
C4_RampPlan ==
    sched_pc # "start" /\ args.ramp =>
        /\ total_beats =
               NearestInteger((args.start_bpm + args.end_bpm) * args.duration,
                              120)
        /\ num_increments = total_beats \div args.measures
        /\ bpm_increment =
               IF num_increments > 0
               THEN Rat(args.end_bpm - args.start_bpm, num_increments)
               ELSE RInt(0)
        /\ args = Plan(60, 120, 60, 4) =>
               /\ total_beats = 90
               /\ num_increments = 22
               /\ bpm_increment = <<30, 11>>

RampPcs ==
    {"r_loop", "r_tick", "r_paused", "r_poll", "r_sched", "r_sleep", "r_inc"}

\* beat number b (counted from 1) ends a measure and is not the last beat
IncrementBeat(b) == b % args.measures = 0 /\ b < total_beats

\* C5: during the ramp the tempo increment fires after beat b exactly when b
\* is a multiple of measures and b < total_beats: the scheduler's tempo then
\* grows by increment_delta and is written to the store at once; no other
\* beat, and no other step of the ramp, changes it; a boundary that falls on
\* the last beat fires nothing
C5_IncrementSchedule ==
    /\ [](fired = {b \in 1..beat : IncrementBeat(b)})
    /\ [][/\ beat' = beat + 1 /\ IncrementBeat(beat') =>
               /\ current_bpm' = RAdd(current_bpm, bpm_increment)
               /\ bpm_shared' = current_bpm'
          /\ beat' = beat + 1 /\ ~IncrementBeat(beat') =>
               UNCHANGED <<current_bpm, bpm_shared>>
          /\ beat' = beat /\ sched_pc \in RampPcs =>
               UNCHANGED current_bpm]_vars

C5_Witness ==
    /\ args = Plan(180, 300, 1, 2)
    /\ total_beats = 4
    /\ beat = 4
    /\ fired = {2}
    /\ current_bpm = RInt(240)

C7_DecreaseKeepsAboveOne ==
    [][NormalKey("j") =>
          /\ bpm_shared' = IF RGt(RSub(bpm_shared, RInt(1)), RInt(1))
                            THEN RSub(bpm_shared, RInt(1)) ELSE bpm_shared
          /\ bpm_shared' # bpm_shared => RGt(bpm_shared', RInt(1))]_vars

\* C7 as the code has it: the decrease command lowers the tempo by 1 exactly
\* when the tempo before the command is greater than 1 and is refused
\* otherwise, so it never leaves the store at a value <= 0 (a tempo of 2 is
\* lowered to 1)
C7_DecreaseGuardedByCurrent ==
    [][NormalKey("j") =>
          /\ RGt(bpm_shared, RInt(1)) =>
                bpm_shared' = RSub(bpm_shared, RInt(1))
          /\ ~RGt(bpm_shared, RInt(1)) => bpm_shared' = bpm_shared
          /\ RGt(bpm_shared', RInt(0))
          /\ state' = state]_vars

C7_Witness ==
    /\ key = "j"
    /\ keys_read = 1
    /\ ~input_mode
    /\ bpm_shared = RInt(1)

\* C8 as stated: the Enter key in input mode sets the store to the number
\* typed only if that number is greater than 0; the keystrokes "-5", "abc"
\* (here "a"), "0" and nothing at all leave the store and the run state
\* unchanged
C8_EntryRejectsKeyedNonPositive ==
    [][InputKey("Enter") =>
          /\ typed \in {<<"-", "5">>, <<"a">>, <<"0">>, <<>>} =>
                bpm_shared' = bpm_shared
          /\ state' = state]_vars

\* C8 as the code has it: only digits and '.' reach the buffer, every other
\* key is dropped; Enter sets the store to the number in the buffer if it
\* parses and is greater than 0, and leaves the store alone otherwise
\* ("0", ".", nothing); it never changes the run state and always leaves
\* input mode with an empty buffer; the keystrokes "-5" therefore set the
\* tempo to 5
C8_EntryAcceptsPositiveBuffer ==
    [][/\ InputKey("Enter") =>
             /\ input_buffer \in {<<"0">>, <<".">>, <<>>, <<"0", "0">>,
                                  <<"0", ".">>, <<".", "0">>, <<".", ".">>} =>
                   bpm_shared' = bpm_shared
             /\ input_buffer = <<"5">> => bpm_shared' = RInt(5)
             /\ input_buffer = <<".", "5">> => bpm_shared' = <<1, 2>>
             /\ input_buffer = <<"5", "0">> => bpm_shared' = RInt(50)
             /\ typed = <<"-", "5">> => bpm_shared' = RInt(5)
             /\ typed = <<"a">> => bpm_shared' = bpm_shared
             /\ RGt(bpm_shared', RInt(0))
             /\ state' = state
             /\ ~input_mode'
             /\ input_buffer' = <<>>
       /\ InputKey("-") \/ InputKey("a") => input_buffer' = input_buffer
       /\ InputKey("5") => input_buffer' = Append(input_buffer, "5")]_vars

C8_Witness ==
    /\ typed = <<"-", "5", "Enter">>
    /\ key = "Enter"
    /\ ~input_mode
    /\ input_buffer = <<>>
    /\ bpm_shared = RInt(5)

\* the longest suffix of s in which no two neighbours are more than
\* TAP_TIMEOUT_MS apart
SessionOf(s) ==
    LET starts == {j \in 1..Len(s) :
                     \A i \in j..(Len(s) - 1) : s[i + 1] - s[i] <= 5000}
    IN  IF s = <<>> THEN <<>>
        ELSE SubSeq(s, CHOOSE j \in starts : \A i \in starts : j <= i, Len(s))

\* the last n elements of s
LastN(s, n) == IF Len(s) <= n THEN s ELSE SubSeq(s, Len(s) - n + 1, Len(s))

\* C9: the tap window holds the (at most 5) most recent tap times of the
\* current session, oldest first and non-decreasing; a sixth tap evicts
\* the oldest
C9_TapWindow ==
    /\ Len(tap_times) <= 5
    /\ \A i \in 1..(Len(tap_times) - 1) : tap_times[i] <= tap_times[i + 1]
    /\ tap_times = LastN(SessionOf(taps), 5)

C9_Witness ==
    /\ Len(SessionOf(taps)) = 7
    /\ Len(tap_times) = 5
    /\ tap_times[1] = taps[3]
    /\ tap_times[1] > taps[1]

\* C10: a tap more than 5000 ms after the previous one clears the window
\* first: it is the first tap of a new session, yields no tempo, and the
\* tap count right after it is 1; a tap exactly 5000 ms after the previous
\* one continues the session
C10_TapTimeout ==
    [][NormalKey("g") /\ tap_times # <<>> =>
          /\ clock - Last(tap_times) > 5000 =>
                /\ tap_times' = <<clock>>
                /\ tap_result' = None
                /\ bpm_shared' = bpm_shared
                /\ is_tapping'
          /\ clock - Last(tap_times) <= 5000 =>
                /\ Len(tap_times') >= 2
                /\ tap_times' = LastN(Append(tap_times, clock), 5)]_vars

C10_Witness ==
    /\ Len(taps) >= 3
    /\ tap_times = <<clock>>
    /\ get_tap_count(clock) = 1
    /\ tap_result = None
    /\ key = "g"

\* the estimate the stated rule gives for the window w: none below two
\* timestamps, else 60000 / (mean of the Len(w) - 1 intervals), kept if and
\* only if it lies in [5, 300]
StatedEstimate(w) ==
    LET n == Len(w) - 1
        span == w[Len(w)] - w[1]
    IN  IF Len(w) < 2 \/ span = 0 THEN None
        ELSE IF 5 * span <= 60000 * n /\ 60000 * n <= 300 * span
             THEN Rat(60000 * n, span) ELSE None

\* x and y are both no estimate, or the same tempo
SameEstimate(x, y) == IF x = None THEN y = None ELSE y # None /\ x = y

C12_TappingStatus ==
    LET live == tap_times # <<>> /\ clock - Last(tap_times) <= 5000
    IN  /\ IsTapping(clock) <=> live
        /\ get_tap_count(clock) = IF live THEN Len(tap_times) ELSE 0

C12_Witness ==
    /\ Len(tap_times) >= 2
    /\ clock - Last(tap_times) > 5000
    /\ ~IsTapping(clock)
    /\ get_tap_count(clock) = 0

C14_ZeroMeasuresRejected ==
    [][sched_pc = "start" /\ sched_pc' # "start" /\ args.ramp =>
          args.measures >= 1 /\ sched_pc' # "panicked"]_vars

\* the scheduler has not yet left run_progressive
InRamp == sched_pc \in RampPcs \cup {"start", "r_final"}

ZeroDurationRamp ==
    /\ args.ramp /\ args.duration = 0 =>
          /\ sched_pc # "start" => total_beats = 0
          /\ beat = 0
          /\ ramp_ticks = 0
          /\ InRamp => const_ticks = 0
    /\ InRamp => const_ticks = 0

\* C15 as stated: with duration = 0 the ramp performs no beat and emits no
\* tick, end_bpm is written to the store before any tick is emitted, and
\* the first beat of the steady phase uses end_bpm as its tempo
C15_ZeroDurationStartsAtEnd ==
    /\ [](ZeroDurationRamp)
    /\ [](args.ramp /\ args.duration = 0 /\ const_ticks = 0
             /\ sched_pc = "c_tick" => current_bpm = RInt(args.end_bpm))
    /\ [][sched_pc = "r_final" /\ sched_pc' # "r_final" =>
             bpm_shared' = RInt(args.end_bpm)]_vars

\* C15 as the code has it: with duration = 0 the ramp performs no beat and
\* emits no tick, and end_bpm is written to the store before any tick is
\* emitted; the first beat of the steady phase uses the tempo it reads from
\* the store, which is end_bpm unless the operator has changed the tempo
\* since
C15_ZeroDurationReadsStore ==
    /\ [](ZeroDurationRamp)
    /\ [](args.ramp /\ args.duration = 0 /\ const_ticks = 0
             /\ sched_pc = "c_tick" /\ keys_read = 0 =>
                current_bpm = RInt(args.end_bpm))
    /\ [][sched_pc = "r_final" /\ sched_pc' # "r_final" =>
             bpm_shared' = RInt(args.end_bpm)]_vars
    /\ [][/\ sched_pc = "c_read" /\ sched_pc' # "c_read" =>
                current_bpm' = bpm_shared
          /\ sched_pc \in {"c_load", "c_tick"} => UNCHANGED current_bpm]_vars

C15_Witness ==
    /\ args = Plan(180, 300, 0, 2)
    /\ sched_pc = "c_sleep"
    /\ ramp_ticks = 0
    /\ const_ticks = 1
    /\ key = "k"
    /\ current_bpm = RInt(301)
    /\ next_beat = 199

\* play_tick calls made so far, in both phases
Ticks == ramp_ticks + const_ticks

\* C16: once the scheduler has itself loaded Stopped it emits no further
\* tick in either phase, so a ramp aborted by Stopped is followed by no tick
\* of the steady phase; and at most one tick is emitted after Stopped was
\* stored, in any interleaving
C16_TicksAfterStop ==
    /\ [](state = Stopped => Ticks <= ticks_at_stop + 1)
    /\ [](seen_stop => state = Stopped)
    /\ [][seen_stop => UNCHANGED <<ramp_ticks, const_ticks>>]_vars

C16_Witness ==
    /\ args.ramp
    /\ state = Stopped
    /\ sched_pc = "done"
    /\ seen_stop
    /\ beat < total_beats
    /\ const_ticks = 0
    /\ ramp_ticks = ticks_at_stop + 1

\* C17: under fair scheduling, once Stopped is stored the scheduler returns
\* from both phases, wherever it was (a ramp beat, the pause poll loop of
\* the ramp, a steady beat, a steady pause slice), and the interactive loop
\* exits; and the steady phase never returns while the run state is not
\* Stopped
C17_StopTerminates ==
    /\ (state = Stopped) ~> (sched_pc = "done" /\ ui_pc = "done")
    /\ [](sched_pc = "done" => state = Stopped)

C17_Witness ==
    /\ args.ramp
    /\ state = Stopped
    /\ sched_pc = "done"
    /\ ui_pc = "done"
    /\ current_state = Paused
    /\ beat < total_beats
    /\ clock = sleep_until

\* C18: when Stopped is stored while the scheduler sleeps towards the next
\* beat, the scheduler observes it within one polling interval and unwinds
\* without completing the sleep: with more than a polling interval of the
\* sleep left, the scheduler thread is still able to take a step
C18_StopCutsBeatSleep ==
    /\ state = Stopped
    /\ sched_pc \in {"r_sleep", "c_sleep"}
    /\ next_beat - clock > PAUSE_POLL_MS
    => ENABLED Scheduler

\* 60 / bpm seconds, in whole ms
IntervalMs(bpm) == (60000 * bpm[2]) \div bpm[1]

\* C19: every iteration of the steady phase reads the tempo from the store
\* anew, and the beat interval of the iteration is 60 / (the value read): a
\* tempo the operator wrote before the read of an iteration sets the
\* interval of that beat
C19_SteadyRereadsTempo ==
    [][/\ sched_pc = "c_read" /\ sched_pc' # "c_read" =>
             current_bpm' = bpm_shared /\ sched_pc' = "c_load"
       /\ sched_pc \in {"c_load", "c_tick"} => UNCHANGED current_bpm
       /\ sched_pc' = "c_load" /\ sched_pc # "c_load" => sched_pc = "c_read"
       /\ sched_pc' = "c_tick" /\ sched_pc # "c_tick" => sched_pc = "c_load"
       /\ const_ticks' # const_ticks =>
             /\ sched_pc = "c_tick"
             /\ next_beat' =
                   IF next_beat + IntervalMs(current_bpm) > clock
                   THEN next_beat + IntervalMs(current_bpm) ELSE clock]_vars

C19_Witness ==
    /\ args = Plan(180, 300, 0, 2)
    /\ const_ticks = 3
    /\ keys_read = 1
    /\ key = "k"
    /\ current_bpm = RInt(301)
    /\ sched_pc = "c_sleep"
    /\ clock = 500
    /\ next_beat = 699

RampReads ==
    /\ [](sched_pc = "r_tick" => current_state = Running)
    /\ [](ramp_ticks <= total_beats /\ ramp_ticks <= beat + 1)
    /\ [](args.ramp /\ ~InRamp /\ state = Running /\ toggled_from = <<>>
             => ramp_ticks = total_beats)
    /\ [][/\ sched_pc = "r_loop" /\ sched_pc' # "r_loop" /\ beat < total_beats
                => (sched_pc' = "r_tick" <=> state = Running)
          /\ ramp_ticks' # ramp_ticks =>
                /\ ramp_ticks' = ramp_ticks + 1
                /\ sched_pc = "r_tick"
                /\ current_state = Running
          /\ sched_pc = "r_paused" /\ sched_pc' # "r_paused" /\ state = Paused
                => sched_pc' = "r_poll" /\ sleep_until' = clock + 100
          /\ sched_pc = "r_poll" /\ sched_pc' # "r_poll" =>
                /\ clock >= sleep_until
                /\ state = Stopped =>
                      sched_pc' = "c_start" /\ bpm_shared' = bpm_shared
                /\ state # Stopped => sched_pc' = "r_paused"]_vars

\* C21: in the ramp a tick is emitted if and only if the read at
\* the top of the beat is Running; a beat that found Paused polls in slices
\* of 100 ms and proceeds only after observing Running, or aborts when it
\* observes Stopped after a slice; the ramp emits at most total_beats ticks,
\* and exactly total_beats when the run state is Running throughout
C21_PausedBeatWaitsForRunning ==
    /\ RampReads
    /\ [][current_state = Paused /\ sched_pc = "r_paused"
             /\ sched_pc' = "r_sched" => state = Running]_vars

\* C22: in both phases the anchor is advanced by 60 / current_bpm from the
\* previous anchor; if that is not later than the clock the scheduler does
\* not sleep and sets the anchor to the clock; so after a scheduling step
\* the anchor is never behind the clock read in it, lateness is not carried
\* over, and a scheduling step emits at most the one tick of its iteration
C22_Resync ==
    [][/\ sched_pc \in {"r_sched", "c_tick"} /\ sched_pc' # sched_pc =>
             LET advanced == next_beat + IntervalMs(current_bpm)
                 asleep == IF sched_pc = "r_sched" THEN "r_sleep" ELSE "c_sleep"
                 awake == IF sched_pc = "r_sched" THEN "r_inc" ELSE "c_loop"
             IN  /\ advanced > clock =>
                       next_beat' = advanced /\ sched_pc' = asleep
                 /\ advanced <= clock =>
                       next_beat' = clock /\ sched_pc' = awake
                 /\ next_beat' >= clock
                 /\ Ticks' <= Ticks + 1
       /\ next_beat' # next_beat =>
             sched_pc \in {"start", "r_sched", "c_start", "c_tick", "c_pause"}
       /\ Ticks' # Ticks => sched_pc \in {"r_tick", "c_tick"}]_vars

C22_Witness ==
    /\ args = Plan(180, 300, 1, 2)
    /\ sched_pc = "r_inc"
    /\ ramp_ticks = 1
    /\ clock = 500
    /\ next_beat = 500

\* C23: no step of the scheduler and no read of the renderer writes the run
\* state; it changes only by a toggle or a stop of the operator
C23_OnlyOperatorWritesState ==
    [][/\ state' # state => NormalKey(" ") \/ NormalKey("q")
       /\ sched_pc' # sched_pc \/ Ticks' # Ticks \/ next_beat' # next_beat
             => state' = state
       /\ ui_pc = "frame" => state' = state
       /\ keys_read' = keys_read => state' = state]_vars

C23_Witness ==
    /\ args.ramp
    /\ state = Paused
    /\ key = " "
    /\ toggled_from = <<Running, Paused, Running>>
    /\ sched_pc = "c_pause"
    /\ ramp_ticks >= 1

\* C24: accesses to the tempo store are mutually exclusive and the last
\* write wins: the store is written only by the thread holding the lock, an
\* increase or decrease is a read-modify-write with no write of the other
\* thread between its read and its write, and every read of the scheduler
\* and of the renderer returns the value of the latest completed write
C24_StoreExclusive ==
    /\ [](~(sched_pc \in SchedHeldPcs /\ ui_pc \in UiHeldPcs))
    /\ [](sched_pc \in SchedHeldPcs <=> bpm_lock = "sched")
    /\ [](ui_pc \in UiHeldPcs <=> bpm_lock = "ui")
    /\ [](ui_pc \notin {"key_loaded", "key_stored"} =>
             bpm_shared = bpm_committed)
    /\ [][/\ bpm_shared' # bpm_shared =>
                IF sched_pc' # sched_pc
                  THEN sched_pc \in {"r_inc_held", "r_final_held"}
                  ELSE ui_pc = "key_loaded"
          /\ ui_pc = "key_loaded" /\ ui_pc' # ui_pc =>
                /\ bpm_shared = bpm_read
                /\ key = "k" => bpm_shared' = RAdd(bpm_shared, RInt(1))
                /\ key = "j" =>
                     bpm_shared' = IF RGt(bpm_shared, RInt(1))
                                     THEN RSub(bpm_shared, RInt(1))
                                     ELSE bpm_shared
          /\ ui_pc = "key_held" /\ ui_pc' # ui_pc =>
                bpm_read' = bpm_committed
          /\ sched_pc = "c_read_held" /\ sched_pc' # sched_pc =>
                current_bpm' = bpm_committed
          /\ ui_pc = "frame_held" /\ ui_pc' # ui_pc =>
                app_state'.current_bpm = bpm_committed
          /\ sched_pc = "r_inc_held" /\ sched_pc' # sched_pc =>
                bpm_shared' = current_bpm
          /\ sched_pc = "r_final_held" /\ sched_pc' # sched_pc =>
                bpm_shared' = RInt(args.end_bpm)]_vars

C24_Witness ==
    /\ args = Plan(180, 300, 1, 2)
    /\ sched_pc = "r_inc_lock"
    /\ current_bpm = RInt(240)
    /\ ui_pc = "key_stored"
    /\ bpm_lock = "ui"
    /\ key = "k"
    /\ bpm_read = RInt(180)
    /\ bpm_shared = RInt(181)
    /\ bpm_committed = RInt(180)

\* C25: when the ramp reads Stopped at the top of a beat or in the pause
\* poll, the scheduler makes no further write to the tempo store; end_bpm is
\* published only when the ramp ran through all its beats or has none
C25_AbortSkipsFinalPublish ==
    [][/\ sched_pc = "r_final" /\ sched_pc' # sched_pc => beat = total_beats
       /\ seen_stop /\ sched_pc' # sched_pc => bpm_shared' = bpm_shared]_vars

\* start_bpm + k * increment_delta, k the number of increments fired so far
RampTempo ==
    RAdd(RInt(args.start_bpm),
         Rat(Cardinality(fired) * bpm_increment[1], bpm_increment[2]))

\* C26: the ramp never reads the tempo store: the interval of every beat of
\* the ramp is 60 / (start_bpm + k * increment_delta), k the number of
\* increments fired so far, whatever the operator wrote; and the ramp writes
\* the store only in an increment publish and in the final publish, each of
\* which overwrites what the operator wrote
C26_RampIgnoresStore ==
    /\ [](sched_pc \in RampPcs => current_bpm = RampTempo)
    /\ [][/\ sched_pc = "r_sched" /\ sched_pc' # sched_pc =>
                LET advanced == next_beat + IntervalMs(RampTempo)
                IN  next_beat' = IF advanced > clock THEN advanced ELSE clock
          /\ sched_pc \in RampPcs /\ sched_pc' # sched_pc
                /\ bpm_shared' # bpm_shared => fired' # fired
          /\ fired' # fired => bpm_shared' = RampTempo'
          /\ sched_pc = "r_final" /\ sched_pc' # sched_pc =>
                bpm_shared' = RInt(args.end_bpm)
          /\ keys_read' # keys_read =>
                UNCHANGED <<current_bpm, next_beat, fired, sched_pc>>]_vars

C26_Witness ==
    /\ args = Plan(180, 300, 1, 2)
    /\ sched_pc \in RampPcs
    /\ fired = {2}
    /\ key = "k"
    /\ app_state.current_bpm = RInt(181)
    /\ bpm_shared = RInt(240)

\* the ramp has run through all its beats
RampComplete == args.ramp /\ sched_pc = "c_start" /\ beat = total_beats

\* lo <= x <= hi for an f64 x and whole numbers lo, hi
F64Within(x, lo, hi) ==
    /\ F64ScaledFloor(x, 0) >= lo
    /\ F64ScaledFloor(x, 0) < hi \/ (F64ScaledFloor(x, 0) = hi /\ F64Whole(x))

\* lo - 2^-20 <= x < hi + 2^-20
F64Near(x, lo, hi) ==
    /\ F64ScaledFloor(x, 20) >= lo * Pow2(20) - 1
    /\ F64ScaledFloor(x, 20) <= hi * Pow2(20)

LowerEnd == IF args.start_bpm < args.end_bpm THEN args.start_bpm
            ELSE args.end_bpm

UpperEnd == IF args.start_bpm < args.end_bpm THEN args.end_bpm
            ELSE args.start_bpm

\* the final publish of a ramp whose beat count is a multiple of the measure
\* raises the store by a whole increment_delta
WholeDeltaJump ==
    [][sched_pc = "r_final" /\ sched_pc' = "c_start" /\ total_beats > 0
         /\ total_beats % args.measures = 0
         => /\ bpm_increment # RInt(0) \/ args.start_bpm = args.end_bpm
            /\ RSub(bpm_shared', bpm_shared) = bpm_increment]_vars

C29_InputModeCaptures ==
    /\ [](\A i \in 1..Len(input_buffer) :
             input_buffer[i] \in DigitChars \cup {"."})
    /\ [][input_mode /\ keys_read' # keys_read =>
             /\ state' = state
             /\ app_state'.state = app_state.state
             /\ bpm_shared' # bpm_shared =>
                   /\ key' = "Enter"
                   /\ ParseF64(input_buffer) # None
                   /\ RGt(ParseF64(input_buffer), RInt(0))
                   /\ bpm_shared' = ParseF64(input_buffer)
             /\ key' \in {"q", " ", "k", "j", "g"} =>
                   UNCHANGED <<state, bpm_shared, app_state, tap_times,
                               is_tapping, last_calculated_bpm, taps,
                               input_mode, input_buffer>>
             /\ input_mode' <=> key' \notin {"Enter", "Esc"}]_vars

C29_Witness ==
    /\ typed = <<"q", "5", "Enter">>
    /\ ~input_mode
    /\ state = Running
    /\ bpm_shared = RInt(5)

\* C30: no thread sleeps, emits a tick, polls for input or waits while it
\* holds the lock of the tempo store, and none takes it twice; so a thread
\* holding the lock can always go on to release it, and every acquisition
\* succeeds in the end
C30_LockDiscipline ==
    /\ [](bpm_lock = "sched" => sched_pc \in SchedHeldPcs)
    /\ [](bpm_lock = "ui" => ui_pc \in UiHeldPcs)
    /\ [](sched_pc \in SleepPcs \cup {"r_tick", "c_tick"} \cup SchedWaitPcs
             => bpm_lock # "sched")
    /\ [](ui_pc \in {"poll", "frame"} \cup UiWaitPcs => bpm_lock # "ui")
    /\ [](bpm_lock = "sched" => ENABLED SchedSection)
    /\ [](bpm_lock = "ui" => ENABLED UiSection)
    /\ [][/\ Ticks' # Ticks => bpm_lock = "free" \/ bpm_lock = "ui"
          /\ keys_read' # keys_read => bpm_lock # "ui"]_vars
    /\ (sched_pc \in SchedWaitPcs) ~> (bpm_lock = "sched")
    /\ (ui_pc \in UiWaitPcs) ~> (bpm_lock = "ui")

C30_Witness ==
    /\ sched_pc = "c_read"
    /\ const_ticks >= 1
    /\ bpm_lock = "ui"
    /\ ui_pc = "key_stored"
    /\ key = "k"

====
